---- MODULE Spec2Model ----
(***************************************************************************)
(* Model of scale-tests/deploy-dispatchers.py: the script's __main__       *)
(* block, deploy_dispatchers, create_quota and no_stdout.                  *)
(*                                                                         *)
(* The control plane (DC/OS: package repositories, quotas, installed      *)
(* services) is the environment.  Every call to it either succeeds, with   *)
(* the effect its interface states, or raises an error.  The file system   *)
(* holds the options file and the output file.  One process run may be     *)
(* followed by a second run of the script with the same arguments against  *)
(* the state the first run left behind.                                    *)
(***************************************************************************)
EXTENDS Integers, Sequences, FiniteSets, TLC

\* ------------------------------------------------------------- bounds
MaxN == 3

\* ------------------------------------------------------------- inputs
None == "None"
Absent == "<absent>"
Bases == {"spark"}
RepoUrls == {"http://repo/stub-universe"}
OptionsPaths == {"options.json"}
PackageName == "spark"
StaleLine == <<"stale", "stale-drivers-role", "stale-executors-role">>

\* docopt defaults of the quota options
QuotaDriversCpus == 1
QuotaDriversGpus == 0
QuotaDriversMem == 2048
QuotaExecutorsCpus == 1
QuotaExecutorsGpus == 0
QuotaExecutorsMem == 1524

\* ------------------------------------------------------------- naming
\* mutant: the index is left out of the name
ServiceNameNoIndex(B, idx) == B \o "-" \o ToString(0)

\* mutant: the index is counted from 1
ServiceNameOneBased(B, idx) == B \o "-" \o ToString(idx + 1)

ServiceName(B, idx) == B \o "-" \o ToString(idx)

DriversRole(sn) == sn \o "-drivers-role"

\* mutant: the executors role gets the drivers suffix
ExecutorsRoleAsDrivers(sn) == sn \o "-drivers-role"

ExecutorsRole(sn) == sn \o "-executors-role"

RepoName(B) == B \o "-repo"

\* ------------------------------------------------------------- options
DefaultOptions ==
    [service |-> [name |-> Absent, role |-> "*", user |-> "root"],
     hdfs |-> ""]

FileOptions ==
    [service |-> [name |-> "from-file", role |-> "file-role", user |-> "nobody"],
     hdfs |-> "http://hdfs/conf"]

VARIABLES
    num_dispatchers, service_name_base, package_repo, create_quotas,
    options_file,
    optsExists,
    options,
    pc, i, service_name, drivers_role, executors_role,
    frame,
    stdout,
    outfile, disk0, quotas0,
    quotas, repos, installs,
    events, run

args == <<num_dispatchers, service_name_base, package_repo, create_quotas,
          options_file>>
locals == <<i, service_name, drivers_role, executors_role>>
plane == <<quotas, repos, installs>>
start == <<disk0, quotas0>>
vars == <<args, optsExists, options, pc, locals, frame, stdout, outfile,
          start, plane, events, run>>

\* ------------------------------------------------------------- helpers
NoFrame == [name |-> "", cpus |-> 0, gpus |-> 0, mem |-> 0,
            existing |-> {}, ret |-> ""]

Ev(op, arg, spec, ok, out) ==
    [op |-> op, inst |-> i, arg |-> arg, spec |-> spec, ok |-> ok, out |-> out]

Quota(name, c, g, m) == [role |-> name, cpus |-> c, gpus |-> g, mem |-> m]

Roles(qs) == {qs[k].role : k \in 1..Len(qs)}

Uris(rs) == {rs[k].uri : k \in 1..Len(rs)}

\* leaving the "with open(...) as outfile" block: the file is flushed and closed
CloseFile(f) ==
    IF f.open
    THEN [f EXCEPT !.open = FALSE, !.disk = f.disk \o f.buffer,
                   !.buffer = <<>>, !.closes = f.closes + 1]
    ELSE f

\* mutant: the block does not redirect
NoStdoutEnterNoop(saved) == saved

\* no_stdout: sys.stdout = null on entry, sys.stdout = save_stdout after the yield
NoStdoutEnter(saved) == "null"

NoStdoutExit(saved) == saved

\* the statement after the yield is not reached when the body raises
NoStdoutRaise(saved) == "null"

\* mutant: the exception skips the close of the output file
RaiseNoClose ==
    /\ outfile' = outfile
    /\ pc' = "error"

\* an exception leaves deploy_dispatchers and ends the process
Raise ==
    /\ outfile' = CloseFile(outfile)
    /\ pc' = "error"


\* ------------------------------------------------------------- initial state
Unloaded ==
    [service |-> [name |-> Absent, role |-> Absent, user |-> Absent],
     hdfs |-> Absent]

Universe == [name |-> "universe", uri |-> "https://universe.mesosphere.com/repo"]

PreRepos ==
    {<<Universe>>}
        \cup {<<Universe, [name |-> "preset", uri |-> u]>> : u \in RepoUrls}

OldQuota(name) == Quota(name, 7, 0, 512)

PreQuotas(B) ==
    {<<>>,
     <<OldQuota(DriversRole(ServiceName(B, 0)))>>,
     <<OldQuota("other-role"), OldQuota(ExecutorsRole(ServiceName(B, 1)))>>}

NoOutfile ==
    [exists |-> FALSE, open |-> FALSE, buffer |-> <<>>, disk |-> <<>>,
     opens |-> 0, closes |-> 0]

OldOutfile == [NoOutfile EXCEPT !.exists = TRUE, !.disk = <<StaleLine>>]

OnDisk(f) == [exists |-> f.exists, disk |-> f.disk]

Init ==
    /\ num_dispatchers \in 0..MaxN
    /\ service_name_base \in Bases
    /\ package_repo \in {None} \cup RepoUrls
    /\ create_quotas \in BOOLEAN
    /\ options_file \in {None} \cup OptionsPaths
    /\ optsExists \in (IF options_file = None THEN {FALSE} ELSE BOOLEAN)
    /\ options = Unloaded
    /\ pc = "main"
    /\ i = 0
    /\ service_name = ""
    /\ drivers_role = ""
    /\ executors_role = ""
    /\ frame = NoFrame
    /\ stdout = "orig"
    /\ outfile \in {NoOutfile, OldOutfile}
    /\ disk0 = OnDisk(outfile)
    /\ quotas \in PreQuotas(service_name_base)
    /\ quotas0 = quotas
    /\ repos \in PreRepos
    /\ installs = <<>>
    /\ events = <<>>
    /\ run = 1

\* ------------------------------------------------------------- __main__
\* mutant: a missing options file falls back to the default options
MainMissingFallsBack ==
    /\ pc = "main"
    /\ options_file # None
    /\ ~optsExists
    /\ options' = DefaultOptions
    /\ pc' = "open"
    /\ UNCHANGED <<args, optsExists, locals, frame, stdout, outfile, start,
                   plane, events, run>>

\* options file given but absent: print and sys.exit(1)
MainMissing ==
    /\ pc = "main"
    /\ options_file # None
    /\ ~optsExists
    /\ pc' = "exit1"
    /\ UNCHANGED <<args, optsExists, options, locals, frame, stdout, outfile,
                   start, plane, events, run>>

\* options = json.load(open(options_file)), then deploy_dispatchers(...)
MainLoad ==
    /\ pc = "main"
    /\ options_file # None
    /\ optsExists
    /\ options' = FileOptions
    /\ pc' = "open"
    /\ UNCHANGED <<args, optsExists, locals, frame, stdout, outfile, start,
                   plane, events, run>>

\* options = get_default_options(arguments), then deploy_dispatchers(...)
MainDefault ==
    /\ pc = "main"
    /\ options_file = None
    /\ options' = DefaultOptions
    /\ pc' = "open"
    /\ UNCHANGED <<args, optsExists, locals, frame, stdout, outfile, start,
                   plane, events, run>>

\* ------------------------------------------------------------- deploy_dispatchers
\* with open(output_file, "w") as outfile: creates or truncates the file
OpenOutfile ==
    /\ pc = "open"
    /\ outfile' = [exists |-> TRUE, open |-> TRUE, buffer |-> <<>>,
                   disk |-> <<>>, opens |-> outfile.opens + 1,
                   closes |-> outfile.closes]
    /\ pc' = "cli"
    /\ UNCHANGED <<args, optsExists, options, locals, frame, stdout, start,
                   plane, events, run>>

\* shakedown.run_dcos_command("package install spark --cli --yes")
CliOk ==
    /\ pc = "cli"
    /\ events' = Append(events, Ev("cli_install", PackageName, <<>>, TRUE, stdout))
    /\ pc' = "for"
    /\ UNCHANGED <<args, optsExists, options, locals, frame, stdout, outfile,
                   start, plane, run>>

CliFail ==
    /\ pc = "cli"
    /\ events' = Append(events, Ev("cli_install", PackageName, <<>>, FALSE, stdout))
    /\ Raise
    /\ UNCHANGED <<args, optsExists, options, locals, frame, stdout, start,
                   plane, run>>

\* for i in range(0, num_dispatchers): service_name = "{}-{}".format(...)
ForNext ==
    /\ pc = "for"
    /\ i < num_dispatchers
    /\ service_name' = ServiceName(service_name_base, i)
    /\ pc' = "set_name"
    /\ UNCHANGED <<args, optsExists, options, i, drivers_role, executors_role,
                   frame, stdout, outfile, start, plane, events, run>>

\* the range is exhausted: the with block ends and the function returns
ForEnd ==
    /\ pc = "for"
    /\ i >= num_dispatchers
    /\ outfile' = CloseFile(outfile)
    /\ pc' = "done"
    /\ UNCHANGED <<args, optsExists, options, locals, frame, stdout, start,
                   plane, events, run>>

\* mutant: the repository check is left out
SetNameSkipsRepo ==
    /\ pc = "set_name"
    /\ options' = [options EXCEPT !.service.name = service_name]
    /\ events' = Append(events, Ev("set_name", service_name, <<>>, TRUE, stdout))
    /\ pc' = "roles"
    /\ UNCHANGED <<args, optsExists, locals, frame, stdout, outfile, start,
                   plane, run>>

\* mutant: the name slot is written in the first iteration only
SetNameFirstOnly ==
    /\ pc = "set_name"
    /\ options' = IF i = 0
                  THEN [options EXCEPT !.service.name = service_name]
                  ELSE options
    /\ events' = Append(events, Ev("set_name", service_name, <<>>, TRUE, stdout))
    /\ pc' = IF package_repo # None THEN "repo_list" ELSE "roles"
    /\ UNCHANGED <<args, optsExists, locals, frame, stdout, outfile, start,
                   plane, run>>

\* options["service"]["name"] = service_name
SetName ==
    /\ pc = "set_name"
    /\ options' = [options EXCEPT !.service.name = service_name]
    /\ events' = Append(events, Ev("set_name", service_name, <<>>, TRUE, stdout))
    /\ pc' = IF package_repo # None THEN "repo_list" ELSE "roles"
    /\ UNCHANGED <<args, optsExists, locals, frame, stdout, outfile, start,
                   plane, run>>

\* mutant: the repository is added without looking at the listed ones
RepoListOkAlwaysAdd ==
    /\ pc = "repo_list"
    /\ events' = Append(events, Ev("repo_list", "", <<>>, TRUE, stdout))
    /\ pc' = "repo_add"
    /\ UNCHANGED <<args, optsExists, options, locals, frame, stdout, outfile,
                   start, plane, run>>

\* package_repo not in [x['uri'] for x in shakedown.get_package_repos()[...]]
RepoListOk ==
    /\ pc = "repo_list"
    /\ events' = Append(events, Ev("repo_list", "", <<>>, TRUE, stdout))
    /\ pc' = IF package_repo \notin Uris(repos) THEN "repo_add" ELSE "roles"
    /\ UNCHANGED <<args, optsExists, options, locals, frame, stdout, outfile,
                   start, plane, run>>

RepoListFail ==
    /\ pc = "repo_list"
    /\ events' = Append(events, Ev("repo_list", "", <<>>, FALSE, stdout))
    /\ Raise
    /\ UNCHANGED <<args, optsExists, options, locals, frame, stdout, start,
                   plane, run>>

\* shakedown.add_package_repo(repo_name="{}-repo".format(base), repo_url=package_repo)
RepoAddOk ==
    /\ pc = "repo_add"
    /\ repos' = Append(repos, [name |-> RepoName(service_name_base),
                               uri |-> package_repo])
    /\ events' = Append(events, Ev("repo_add", package_repo, <<>>, TRUE, stdout))
    /\ pc' = "roles"
    /\ UNCHANGED <<args, optsExists, options, locals, frame, stdout, outfile,
                   start, quotas, installs, run>>

RepoAddFail ==
    /\ pc = "repo_add"
    /\ events' = Append(events, Ev("repo_add", package_repo, <<>>, FALSE, stdout))
    /\ Raise
    /\ UNCHANGED <<args, optsExists, options, locals, frame, stdout, start,
                   plane, run>>

\* mutant: the quotas are reconciled whatever create_quotas says
RoleNamesIgnoreFlag ==
    /\ pc = "roles"
    /\ drivers_role' = DriversRole(service_name)
    /\ executors_role' = ExecutorsRole(service_name)
    /\ pc' = "quota_drivers"
    /\ UNCHANGED <<args, optsExists, options, i, service_name, frame, stdout,
                   outfile, start, plane, events, run>>

\* drivers_role = ...; executors_role = ...; if create_quotas:
RoleNames ==
    /\ pc = "roles"
    /\ drivers_role' = DriversRole(service_name)
    /\ executors_role' = ExecutorsRole(service_name)
    /\ pc' = IF create_quotas THEN "quota_drivers" ELSE "set_role"
    /\ UNCHANGED <<args, optsExists, options, i, service_name, frame, stdout,
                   outfile, start, plane, events, run>>

\* create_quota(name=drivers_role, cpus=quota_drivers_cpus, ...)
CallQuotaDrivers ==
    /\ pc = "quota_drivers"
    /\ frame' = [name |-> drivers_role, cpus |-> QuotaDriversCpus,
                 gpus |-> QuotaDriversGpus, mem |-> QuotaDriversMem,
                 existing |-> {}, ret |-> "quota_executors"]
    /\ pc' = "cq_list"
    /\ UNCHANGED <<args, optsExists, options, locals, stdout, outfile, start,
                   plane, events, run>>

\* mutant: the executors quota is created with the drivers spec
CallQuotaExecutorsDriversSpec ==
    /\ pc = "quota_executors"
    /\ frame' = [name |-> executors_role, cpus |-> QuotaDriversCpus,
                 gpus |-> QuotaDriversGpus, mem |-> QuotaDriversMem,
                 existing |-> {}, ret |-> "set_role"]
    /\ pc' = "cq_list"
    /\ UNCHANGED <<args, optsExists, options, locals, stdout, outfile, start,
                   plane, events, run>>

\* create_quota(name=executors_role, cpus=quota_executors_cpus, ...)
CallQuotaExecutors ==
    /\ pc = "quota_executors"
    /\ frame' = [name |-> executors_role, cpus |-> QuotaExecutorsCpus,
                 gpus |-> QuotaExecutorsGpus, mem |-> QuotaExecutorsMem,
                 existing |-> {}, ret |-> "set_role"]
    /\ pc' = "cq_list"
    /\ UNCHANGED <<args, optsExists, options, locals, stdout, outfile, start,
                   plane, events, run>>


\* ------------------------------------------------------------- create_quota
\* with no_stdout(): run_dcos_command("spark quota list --json"); json.loads(stdout)
QuotaListOk ==
    /\ pc = "cq_list"
    /\ events' = Append(events,
                        Ev("quota_list", "", <<>>, TRUE, NoStdoutEnter(stdout)))
    /\ frame' = [frame EXCEPT !.existing = Roles(quotas)]
    /\ stdout' = NoStdoutExit(stdout)
    /\ pc' = "cq_check"
    /\ UNCHANGED <<args, optsExists, options, locals, outfile, start, plane,
                   run>>

\* the command fails, or its output is not JSON: the exception leaves the block
QuotaListFail ==
    /\ pc = "cq_list"
    /\ events' = Append(events,
                        Ev("quota_list", "", <<>>, FALSE, NoStdoutEnter(stdout)))
    /\ stdout' = NoStdoutRaise(stdout)
    /\ Raise
    /\ UNCHANGED <<args, optsExists, options, locals, frame, start, plane, run>>

\* mutant: the remove is issued whether or not the name was listed
CqCheckAlwaysRemove ==
    /\ pc = "cq_check"
    /\ pc' = "cq_remove"
    /\ UNCHANGED <<args, optsExists, options, locals, frame, stdout, outfile,
                   start, plane, events, run>>

\* mutant: an existing quota of that name is not removed
CqCheckNeverRemove ==
    /\ pc = "cq_check"
    /\ pc' = "cq_create"
    /\ UNCHANGED <<args, optsExists, options, locals, frame, stdout, outfile,
                   start, plane, events, run>>

\* if name in [x['role'] for x in existing_quotas.get('infos', [])]:
CqCheck ==
    /\ pc = "cq_check"
    /\ pc' = IF frame.name \in frame.existing THEN "cq_remove" ELSE "cq_create"
    /\ UNCHANGED <<args, optsExists, options, locals, frame, stdout, outfile,
                   start, plane, events, run>>

\* run_dcos_command("spark quota remove {}".format(name))
QuotaRemoveOk ==
    /\ pc = "cq_remove"
    /\ quotas' = SelectSeq(quotas, LAMBDA q : q.role # frame.name)
    /\ events' = Append(events, Ev("quota_remove", frame.name, <<>>, TRUE, stdout))
    /\ pc' = "cq_create"
    /\ UNCHANGED <<args, optsExists, options, locals, frame, stdout, outfile,
                   start, repos, installs, run>>

QuotaRemoveFail ==
    /\ pc = "cq_remove"
    /\ events' = Append(events, Ev("quota_remove", frame.name, <<>>, FALSE, stdout))
    /\ Raise
    /\ UNCHANGED <<args, optsExists, options, locals, frame, stdout, start,
                   plane, run>>

\* run_dcos_command("spark quota create -c {} -g {} -m {} {}".format(...))
QuotaCreateOk ==
    /\ pc = "cq_create"
    /\ quotas' = Append(quotas,
                        Quota(frame.name, frame.cpus, frame.gpus, frame.mem))
    /\ events' = Append(events,
                        Ev("quota_create", frame.name,
                           <<frame.cpus, frame.gpus, frame.mem>>, TRUE, stdout))
    /\ pc' = frame.ret
    /\ UNCHANGED <<args, optsExists, options, locals, frame, stdout, outfile,
                   start, repos, installs, run>>

\* mutant: a failed create is tried again
QuotaCreateFailRetry ==
    /\ pc = "cq_create"
    /\ events' = Append(events,
                        Ev("quota_create", frame.name,
                           <<frame.cpus, frame.gpus, frame.mem>>, FALSE, stdout))
    /\ pc' = "cq_create"
    /\ UNCHANGED <<args, optsExists, options, locals, frame, stdout, outfile,
                   start, plane, run>>

QuotaCreateFail ==
    /\ pc = "cq_create"
    /\ events' = Append(events,
                        Ev("quota_create", frame.name,
                           <<frame.cpus, frame.gpus, frame.mem>>, FALSE, stdout))
    /\ Raise
    /\ UNCHANGED <<args, optsExists, options, locals, frame, stdout, start,
                   plane, run>>

\* ------------------------------------------------------------- deploy_dispatchers, continued
\* mutant: the executors role is written into the role slot
SetRoleExecutors ==
    /\ pc = "set_role"
    /\ options' = [options EXCEPT !.service.role = executors_role]
    /\ events' = Append(events, Ev("set_role", executors_role, <<>>, TRUE, stdout))
    /\ pc' = "install"
    /\ UNCHANGED <<args, optsExists, locals, frame, stdout, outfile, start,
                   plane, run>>

\* options["service"]["role"] = drivers_role
SetRole ==
    /\ pc = "set_role"
    /\ options' = [options EXCEPT !.service.role = drivers_role]
    /\ events' = Append(events, Ev("set_role", drivers_role, <<>>, TRUE, stdout))
    /\ pc' = "install"
    /\ UNCHANGED <<args, optsExists, locals, frame, stdout, outfile, start,
                   plane, run>>

\* sdk_install.install(package, service_name, 0, additional_options=options,
\*                     wait_for_deployment=False)
InstallOk ==
    /\ pc = "install"
    /\ installs' = Append(installs, [package |-> PackageName,
                                     name |-> service_name,
                                     options |-> options,
                                     wait |-> FALSE])
    /\ events' = Append(events, Ev("install", service_name, <<>>, TRUE, stdout))
    /\ pc' = "write"
    /\ UNCHANGED <<args, optsExists, options, locals, frame, stdout, outfile,
                   start, quotas, repos, run>>

\* mutant: a rejected install is caught and the iteration goes on
InstallFailSwallowed ==
    /\ pc = "install"
    /\ events' = Append(events, Ev("install", service_name, <<>>, FALSE, stdout))
    /\ pc' = "write"
    /\ UNCHANGED <<args, optsExists, options, locals, frame, stdout, outfile,
                   start, plane, run>>

InstallFail ==
    /\ pc = "install"
    /\ events' = Append(events, Ev("install", service_name, <<>>, FALSE, stdout))
    /\ Raise
    /\ UNCHANGED <<args, optsExists, options, locals, frame, stdout, start,
                   plane, run>>

\* mutant: the record is not written before the next iteration starts
WriteRecordSkipped ==
    /\ pc = "write"
    /\ i' = i + 1
    /\ pc' = "for"
    /\ UNCHANGED <<args, optsExists, options, service_name, drivers_role,
                   executors_role, frame, stdout, outfile, start, plane,
                   events, run>>

\* mutant: the record is written twice
WriteRecordTwice ==
    /\ pc = "write"
    /\ outfile' = [outfile EXCEPT
                       !.buffer = Append(Append(@, <<service_name, drivers_role,
                                                     executors_role>>),
                                         <<service_name, drivers_role,
                                           executors_role>>)]
    /\ events' = Append(Append(events,
                               Ev("write", service_name, <<>>, TRUE, stdout)),
                        Ev("write", service_name, <<>>, TRUE, stdout))
    /\ i' = i + 1
    /\ pc' = "for"
    /\ UNCHANGED <<args, optsExists, options, service_name, drivers_role,
                   executors_role, frame, stdout, start, plane, run>>

\* outfile.write("{},{},{}\n".format(service_name, drivers_role, executors_role))
WriteRecord ==
    /\ pc = "write"
    /\ outfile' = [outfile EXCEPT
                       !.buffer = Append(@, <<service_name, drivers_role,
                                              executors_role>>)]
    /\ events' = Append(events, Ev("write", service_name, <<>>, TRUE, stdout))
    /\ i' = i + 1
    /\ pc' = "for"
    /\ UNCHANGED <<args, optsExists, options, service_name, drivers_role,
                   executors_role, frame, stdout, start, plane, run>>

\* ------------------------------------------------------------- environment
Ended == pc \in {"done", "error", "exit1"}

\* the script is started a second time with the same arguments; the control
\* plane and the files are as the first run left them
Rerun ==
    /\ Ended
    /\ run = 1
    /\ run' = 2
    /\ optsExists' \in (IF options_file = None THEN {FALSE} ELSE BOOLEAN)
    /\ options' = Unloaded
    /\ pc' = "main"
    /\ i' = 0
    /\ service_name' = ""
    /\ drivers_role' = ""
    /\ executors_role' = ""
    /\ frame' = NoFrame
    /\ stdout' = "orig"
    /\ outfile' = [outfile EXCEPT !.opens = 0, !.closes = 0]
    /\ disk0' = OnDisk(outfile)
    /\ quotas0' = quotas
    /\ events' = <<>>
    /\ UNCHANGED <<args, plane>>

Next ==
    \/ MainMissing \/ MainLoad \/ MainDefault
    \/ OpenOutfile
    \/ CliOk \/ CliFail
    \/ ForNext \/ ForEnd
    \/ SetName
    \/ RepoListOk \/ RepoListFail
    \/ RepoAddOk \/ RepoAddFail
    \/ RoleNames
    \/ CallQuotaDrivers \/ CallQuotaExecutors
    \/ QuotaListOk \/ QuotaListFail
    \/ CqCheck
    \/ QuotaRemoveOk \/ QuotaRemoveFail
    \/ QuotaCreateOk \/ QuotaCreateFail
    \/ SetRole
    \/ InstallOk \/ InstallFail
    \/ WriteRecord
    \/ Rerun

Spec == Init /\ [][Next]_vars


\* ------------------------------------------------------------- create_quota alone
\* create_quota(name, c, g, m) called twice in succession with the same
\* arguments, against any quota set holding at most one quota per name;
\* i counts the calls made.
QNames == {"role-a", "role-b"}
QCpus == {1, 2}
QMems == {1024, 2048}

QSpecs == {<<c, m>> : c \in QCpus, m \in QMems}

OneOrNone(name) == {<<>>} \cup {<<Quota(name, sp[1], 0, sp[2])>> : sp \in QSpecs}

QuotaSets == {a \o b : a \in OneOrNone("role-a"), b \in OneOrNone("role-b")}

InitQuota ==
    /\ num_dispatchers = 0
    /\ service_name_base \in Bases
    /\ package_repo = None
    /\ create_quotas = TRUE
    /\ options_file = None
    /\ optsExists = FALSE
    /\ options = DefaultOptions
    /\ pc = "q_call"
    /\ i = 0
    /\ service_name = ""
    /\ drivers_role = ""
    /\ executors_role = ""
    /\ frame \in [name : QNames, cpus : QCpus, gpus : {0}, mem : QMems,
                  existing : {{}}, ret : {"q_call"}]
    /\ stdout = "orig"
    /\ outfile = NoOutfile
    /\ disk0 = OnDisk(outfile)
    /\ quotas \in QuotaSets
    /\ quotas0 = quotas
    /\ repos = <<Universe>>
    /\ installs = <<>>
    /\ events = <<>>
    /\ run = 1

QCall ==
    /\ pc = "q_call"
    /\ i < 2
    /\ i' = i + 1
    /\ frame' = [frame EXCEPT !.existing = {}]
    /\ pc' = "cq_list"
    /\ UNCHANGED <<args, optsExists, options, service_name, drivers_role,
                   executors_role, stdout, outfile, start, plane, events, run>>

NextQuota ==
    \/ QCall
    \/ QuotaListOk \/ QuotaListFail
    \/ CqCheck
    \/ QuotaRemoveOk \/ QuotaRemoveFail
    \/ QuotaCreateOk \/ QuotaCreateFail

SpecQuota == InitQuota /\ [][NextQuota]_vars


\* ------------------------------------------------------------- vocabulary of the properties
LoopCallOps ==
    {"repo_list", "repo_add", "quota_list", "quota_remove", "quota_create",
     "install"}

QuotaOps == {"quota_list", "quota_remove", "quota_create"}

CallOps == LoopCallOps \cup {"cli_install"}

\* the record of instance k as section 4.1 of the specification states it
ExpectedRecord(B, k) ==
    <<B \o "-" \o ToString(k),
      B \o "-" \o ToString(k) \o "-drivers-role",
      B \o "-" \o ToString(k) \o "-executors-role">>

ExpectedPrefix(B, n) == [j \in 1..n |-> ExpectedRecord(B, j - 1)]

EventIdx == 1..Len(events)

FailedCalls == {k \in EventIdx : events[k].op \in CallOps /\ ~events[k].ok}

WriteEvents == SelectSeq(events, LAMBDA e : e.op = "write")

CountRepos(url) == Cardinality({k \in 1..Len(repos) : repos[k].uri = url})

QuotasNamed(name) == {k \in 1..Len(quotas) : quotas[k].role = name}

\* ------------------------------------------------------------- C1
\* C1: when a control-plane call of instance k fails (repo list/add, quota
\* list/remove/create or install), the run ends with the output file holding
\* exactly the records of instances 0..k-1, in index order.
C1_PrefixOnFailure ==
    \A k \in EventIdx :
        (Ended /\ events[k].op \in LoopCallOps /\ ~events[k].ok)
            => outfile.disk = ExpectedPrefix(service_name_base, events[k].inst)

\* install of instance 1 fails with N = 3: exactly one line
C1_Witness ==
    /\ pc = "error"
    /\ num_dispatchers = 3
    /\ events[Len(events)].op = "install"
    /\ ~events[Len(events)].ok
    /\ events[Len(events)].inst = 1
    /\ Len(outfile.disk) = 1

\* ------------------------------------------------------------- C2
\* C2: a run of deploy_dispatchers in which no control-plane call fails
\* writes exactly N lines, line i being (B-i, B-i-drivers-role,
\* B-i-executors-role), in increasing order of i.
C2_SuccessfulRunWritesN ==
    (pc \in {"done", "error"} /\ FailedCalls = {})
        => outfile.disk = ExpectedPrefix(service_name_base, num_dispatchers)

C2_Witness ==
    /\ pc = "done"
    /\ num_dispatchers = MaxN
    /\ Len(outfile.disk) = MaxN
    /\ FailedCalls = {}

\* ------------------------------------------------------------- C3
\* C3: after one or two successful create_quota(name, c, g, m) calls with the
\* same arguments there is exactly one quota named name, and its spec is
\* (c, g, m), whatever quota of that name existed before.
C3_QuotaIdempotent ==
    (pc = "q_call" /\ i >= 1)
        => /\ Cardinality(QuotasNamed(frame.name)) = 1
           /\ \A k \in QuotasNamed(frame.name) :
                  quotas[k] = Quota(frame.name, frame.cpus, frame.gpus, frame.mem)

\* two calls made; the first found a quota of that name with another spec
\* and replaced it
C3_Witness ==
    /\ pc = "q_call"
    /\ i = 2
    /\ \E k \in 1..Len(quotas0) :
           /\ quotas0[k].role = frame.name
           /\ quotas0[k].cpus # frame.cpus
           /\ quotas0[k].mem # frame.mem
    /\ Len(events) = 6
    /\ events[2].op = "quota_remove"
    /\ events[5].op = "quota_remove"

\* ------------------------------------------------------------- C4
\* C4: at most one repository is registered with the package_repo URL, and
\* exactly one once the check-and-register step has completed (in any
\* iteration of either run); add_package_repo is invoked at most once in a
\* run, and only in a state where the URL is not among the repositories.
C4_RepoState ==
    package_repo # None
        => /\ CountRepos(package_repo) <= 1
           /\ (pc = "roles" => CountRepos(package_repo) = 1)
           /\ Cardinality({k \in EventIdx : events[k].op = "repo_add"}) <= 1

C4_AddOnlyIfAbsent ==
    (/\ Len(events') = Len(events) + 1
     /\ events'[Len(events')].op = "repo_add")
        => package_repo \notin Uris(repos)

\* C4: repository registration is idempotent: the state part holds in every
\* state and every add_package_repo step starts with the URL unregistered.
C4_RepoIdempotent == [](C4_RepoState) /\ [][C4_AddOnlyIfAbsent]_vars

\* the second run passes the step with the repository the first run added
C4_Witness ==
    /\ run = 2
    /\ pc = "roles"
    /\ i = 1
    /\ \E k \in 1..Len(repos) :
           /\ repos[k].name = RepoName(service_name_base)
           /\ repos[k].uri = package_repo
    /\ \A k \in EventIdx : events[k].op # "repo_add"

\* ------------------------------------------------------------- C5
\* C5: with create_quotas false no quota list, remove or create call is issued.
C5_NoQuotaCallsWhenDisabled ==
    ~create_quotas => \A k \in EventIdx : events[k].op \notin QuotaOps

C5_Witness ==
    /\ ~create_quotas
    /\ pc = "done"
    /\ num_dispatchers >= 2
    /\ Len(installs) >= 2


\* ------------------------------------------------------------- C6
\* C6: at every install submission of instance i the options carry
\* service.name = service_name(i) and, with quotas enabled, service.role =
\* drivers_role(i); every submitted install carried its own instance's name and
\* role; and in the iteration the name was written, then the role, then the
\* install was submitted.
C6_NameRoleThenSubmit ==
    \A c \in EventIdx :
        events[c].op = "install"
            => \E a, b \in EventIdx :
                   /\ a < b
                   /\ b < c
                   /\ events[a].op = "set_name"
                   /\ events[a].inst = events[c].inst
                   /\ events[b].op = "set_role"
                   /\ events[b].inst = events[c].inst
                   /\ \A m \in (b + 1)..(c - 1) :
                          events[m].op \notin {"set_name", "set_role"}

\* C6: the mutation-order invariant: the options at every install submission
\* are those of the submitting iteration, written name, then role, then submit.
C6_MutationOrder ==
    /\ pc = "install"
           => /\ options.service.name = ExpectedRecord(service_name_base, i)[1]
              /\ create_quotas
                     => options.service.role
                            = ExpectedRecord(service_name_base, i)[2]
    /\ \A k \in 1..Len(installs) :
           /\ installs[k].options.service.name = installs[k].name
           /\ create_quotas
                  => installs[k].options.service.role
                         = installs[k].name \o "-drivers-role"
    /\ \A c \in EventIdx :
           events[c].op = "install"
               => events[c].arg
                      = ExpectedRecord(service_name_base, events[c].inst)[1]
    /\ C6_NameRoleThenSubmit

\* the second iteration is about to submit, after the first left its values
C6_Witness ==
    /\ pc = "install"
    /\ i = 1
    /\ create_quotas
    /\ Len(installs) >= 1
    /\ options.service.name = ExpectedRecord(service_name_base, 1)[1]

\* ------------------------------------------------------------- C7
\* C7: every operation of instance j+1 (config mutation, repo check, quota
\* call, install submission, record write) comes after instance j's install
\* submission and after instance j's record write.
C7_LeftToRight ==
    \A k \in EventIdx :
        (events[k].op # "cli_install" /\ events[k].inst > 0)
            => \E a, b \in 1..(k - 1) :
                   /\ a < b
                   /\ events[a].op = "install"
                   /\ events[a].ok
                   /\ events[a].inst = events[k].inst - 1
                   /\ events[b].op = "write"
                   /\ events[b].inst = events[k].inst - 1

C7_Witness ==
    /\ num_dispatchers = 3
    /\ i = 2
    /\ pc = "for"
    /\ events[Len(events)].op = "write"
    /\ events[Len(events)].inst = 1

\* ------------------------------------------------------------- C8
\* C8: a control-plane call that returns an error is the last operation of
\* the run: it is not retried, no other call follows it, and the run has
\* ended with the error.
C8_AbortOnFirstError ==
    \A k \in FailedCalls :
        /\ k = Len(events)
        /\ pc = "error"

\* a quota call of the second instance fails after the first was installed
C8_Witness ==
    /\ pc = "error"
    /\ Len(events) > 0
    /\ events[Len(events)].op = "quota_create"
    /\ ~events[Len(events)].ok
    /\ events[Len(events)].inst = 1
    /\ num_dispatchers = 3

\* ------------------------------------------------------------- C9
\* C9: with an options file path given and the file absent, the process only
\* exits with status 1: no call is made, and the output file is not opened,
\* created or truncated.
C9_MissingOptionsFile ==
    (options_file # None /\ ~optsExists)
        => /\ pc \in {"main", "exit1"}
           /\ events = <<>>
           /\ outfile.opens = 0
           /\ ~outfile.open
           /\ OnDisk(outfile) = disk0

\* the second run finds the options file gone; the first run's output stays
C9_Witness ==
    /\ pc = "exit1"
    /\ run = 2
    /\ outfile.exists
    /\ Len(outfile.disk) = 2
    /\ outfile.disk[1] # StaleLine

\* ------------------------------------------------------------- C10
\* C10: the output file is opened once per run; when deploy_dispatchers has
\* returned or raised, the file is closed, once, and holds every record
\* written, in the order written.
C10_OpenOnceClosedAlways ==
    /\ outfile.opens <= 1
    /\ pc \notin {"main", "open", "exit1"} => outfile.opens = 1
    /\ outfile.closes <= outfile.opens
    /\ pc \in {"done", "error"}
           => /\ ~outfile.open
              /\ outfile.closes = 1
              /\ Len(outfile.disk) = Len(WriteEvents)
              /\ \A j \in 1..Len(WriteEvents) :
                     outfile.disk[j][1] = WriteEvents[j].arg

\* an error after two records were written
C10_Witness ==
    /\ pc = "error"
    /\ ~outfile.open
    /\ Len(outfile.disk) = 2
    /\ Len(WriteEvents) = 2


\* ------------------------------------------------------------- C11
\* the records this run has written, flushed or not
Records == outfile.disk \o outfile.buffer

RoleNamesWritten ==
    {Records[j][2] : j \in 1..Len(Records)}
        \cup {Records[j][3] : j \in 1..Len(Records)}

\* C11: the service names computed in a run are pairwise distinct, and so
\* are the 2N role names (drivers and executors roles of all instances).
C11_NamesUnique ==
    outfile.opens = 1
        => /\ \A j, k \in 1..Len(Records) :
                  j # k => Records[j][1] # Records[k][1]
           /\ Cardinality(RoleNamesWritten) = 2 * Len(Records)

C11_Witness ==
    /\ pc = "done"
    /\ num_dispatchers = MaxN
    /\ Len(Records) = MaxN
    /\ Cardinality(RoleNamesWritten) = 2 * MaxN

\* ------------------------------------------------------------- C12
CreateEvents == SelectSeq(events, LAMBDA e : e.op = "quota_create")

DriversSpec == <<QuotaDriversCpus, QuotaDriversGpus, QuotaDriversMem>>

ExecutorsSpec == <<QuotaExecutorsCpus, QuotaExecutorsGpus, QuotaExecutorsMem>>

HoldsExactly(name, sp) ==
    /\ Cardinality(QuotasNamed(name)) = 1
    /\ \A k \in QuotasNamed(name) :
           quotas[k] = Quota(name, sp[1], sp[2], sp[3])

\* C12: a successful run with create_quotas issues quota create exactly once
\* per role name, drivers role (drivers spec) then executors role (executors
\* spec) for instance 0, 1, ...; at the end each of the 2N names has exactly
\* one quota, with the requested spec, whatever quotas existed before.
C12_QuotasCreatedOnce ==
    (pc = "done" /\ create_quotas)
        => /\ Len(CreateEvents) = 2 * num_dispatchers
           /\ \A j \in 0..(num_dispatchers - 1) :
                  /\ CreateEvents[2 * j + 1].arg
                         = ExpectedRecord(service_name_base, j)[2]
                  /\ CreateEvents[2 * j + 1].spec = DriversSpec
                  /\ CreateEvents[2 * j + 2].arg
                         = ExpectedRecord(service_name_base, j)[3]
                  /\ CreateEvents[2 * j + 2].spec = ExecutorsSpec
                  /\ HoldsExactly(ExpectedRecord(service_name_base, j)[2],
                                  DriversSpec)
                  /\ HoldsExactly(ExpectedRecord(service_name_base, j)[3],
                                  ExecutorsSpec)

\* N = 2, and quotas of two of the four names existed before the run
C12_Witness ==
    /\ pc = "done"
    /\ create_quotas
    /\ num_dispatchers = 2
    /\ run = 1
    /\ ExpectedRecord(service_name_base, 1)[3] \in Roles(quotas0)
    /\ Len(CreateEvents) = 4

\* ------------------------------------------------------------- C13
OkInstallEvents == SelectSeq(events, LAMBDA e : e.op = "install" /\ e.ok)

\* C13: the number of records written is the number of accepted install
\* submissions, or one less; the j-th record carries the service name passed
\* to the j-th accepted install; installs are submitted without waiting for
\* the deployment.
C13_RecordsFollowInstalls ==
    /\ Len(WriteEvents) \in {Len(OkInstallEvents), Len(OkInstallEvents) - 1}
    /\ outfile.opens = 1 => Len(Records) = Len(WriteEvents)
    /\ \A j \in 1..Len(WriteEvents) :
           /\ WriteEvents[j].arg = OkInstallEvents[j].arg
           /\ Records[j][1] = OkInstallEvents[j].arg
    /\ \A k \in 1..Len(installs) : ~installs[k].wait
    /\ Len(OkInstallEvents) <= Len(installs)
    /\ \A j \in 1..Len(OkInstallEvents) :
           installs[Len(installs) - Len(OkInstallEvents) + j].name
               = OkInstallEvents[j].arg

\* the second install was accepted and its record is not yet written
C13_Witness ==
    /\ pc = "write"
    /\ Len(OkInstallEvents) = 2
    /\ Len(WriteEvents) = 1
    /\ Len(Records) = 1


\* ------------------------------------------------------------- C14
\* the CLI bootstrap is the first operation of the run and is issued once
CliFirst ==
    /\ \A k \in EventIdx : events[k].op = "cli_install" <=> k = 1
    /\ pc \notin {"main", "open", "cli", "exit1"} => Len(events) >= 1

\* the position of a step in the order the code executes an iteration
CodeRank(op) ==
    CASE op = "set_name" -> 1
      [] op = "repo_list" -> 2
      [] op = "repo_add" -> 3
      [] op \in QuotaOps -> 4
      [] op = "set_role" -> 5
      [] op = "install" -> 6
      [] op = "write" -> 7
      [] OTHER -> 0

\* the position of a step in the state machine of section 4.3: RepoCheck,
\* QuotaReconcile, ConfigMerge (name and role), InstallSubmit, RecordWrite
StatedRank(op) ==
    CASE op \in {"repo_list", "repo_add"} -> 1
      [] op \in QuotaOps -> 2
      [] op \in {"set_name", "set_role"} -> 3
      [] op = "install" -> 4
      [] op = "write" -> 5
      [] OTHER -> 0

InOrder(Rank(_)) ==
    \A k, m \in EventIdx :
        (k < m /\ events[k].op # "cli_install" /\ events[m].op # "cli_install")
            => /\ events[k].inst <= events[m].inst
               /\ events[k].inst = events[m].inst
                      => Rank(events[k].op) <= Rank(events[m].op)

HasStep(inst, op) ==
    \E k \in EventIdx :
        events[k].inst = inst /\ events[k].op = op /\ events[k].ok

\* no step of an iteration is left out
StepsPresent ==
    \A k \in EventIdx :
        /\ events[k].op = "write" => HasStep(events[k].inst, "install")
        /\ events[k].op = "install"
               => /\ HasStep(events[k].inst, "set_name")
                  /\ HasStep(events[k].inst, "set_role")
        /\ events[k].op = "set_role"
               => /\ package_repo # None => HasStep(events[k].inst, "repo_list")
                  /\ create_quotas
                         => Cardinality({m \in EventIdx :
                                /\ events[m].inst = events[k].inst
                                /\ events[m].op = "quota_create"
                                /\ events[m].ok}) = 2

\* C14, as stated: bootstrap once and first, then per instance RepoCheck,
\* QuotaReconcile, ConfigMerge (service.name and service.role), InstallSubmit,
\* RecordWrite.
C14_StatedOrder == CliFirst /\ StepsPresent /\ InOrder(StatedRank)

\* C14, amended: bootstrap once and first, then per instance the write of
\* service.name, RepoCheck, QuotaReconcile (optional), the write of
\* service.role, InstallSubmit, RecordWrite.
C14_CodeOrder == CliFirst /\ StepsPresent /\ InOrder(CodeRank)

\* the second iteration has run every step, repository check and quotas included
C14_Witness ==
    /\ pc = "for"
    /\ i = 2
    /\ package_repo # None
    /\ create_quotas
    /\ HasStep(0, "repo_add")
    /\ HasStep(1, "write")


\* ------------------------------------------------------------- C15
NoDuplicateQuota ==
    \A k, m \in 1..Len(quotas) : k # m => quotas[k].role # quotas[m].role

\* list, then remove (optional), then create, as consecutive operations
QuotaProtocol ==
    \A k \in EventIdx :
        /\ events[k].op = "quota_remove"
               => /\ k > 1
                  /\ events[k - 1].op = "quota_list"
                  /\ events[k - 1].ok
        /\ events[k].op = "quota_create"
               => /\ k > 1
                  /\ \/ events[k - 1].op = "quota_list" /\ events[k - 1].ok
                     \/ /\ events[k - 1].op = "quota_remove"
                        /\ events[k - 1].ok
                        /\ events[k - 1].arg = events[k].arg

IssuedNow(op) ==
    /\ Len(events') = Len(events) + 1
    /\ events'[Len(events')].op = op

\* the remove is issued only for a listed name
RemoveOnlyIfListed == IssuedNow("quota_remove") => frame.name \in frame.existing

\* the create is issued only when no quota of that name is listed or exists
CreateOnlyIfAbsent ==
    IssuedNow("quota_create")
        => /\ frame.name \notin Roles(quotas)
           /\ \/ frame.name \notin frame.existing
              \/ events[Len(events)].op = "quota_remove"

\* C15: create_quota lists, removes only a listed name, then creates; the
\* create is never issued while a quota of that name exists, and no two
\* quotas ever have the same name.
C15_RemoveBeforeCreate ==
    /\ [](NoDuplicateQuota /\ QuotaProtocol)
    /\ [][RemoveOnlyIfListed /\ CreateOnlyIfAbsent]_vars

\* the second run replaced a quota that the first run created
C15_Witness ==
    /\ run = 2
    /\ Len(events) >= 3
    /\ events[Len(events)].op = "quota_create"
    /\ events[Len(events)].ok
    /\ events[Len(events) - 1].op = "quota_remove"
    /\ events[Len(events) - 1].inst = 1


\* ------------------------------------------------------------- C16
\* the options the caller supplied (lines 173-182)
Loaded == IF options_file = None THEN DefaultOptions ELSE FileOptions

\* C16: service.role is overwritten only if create_quotas is true; with
\* create_quotas false every install carries the caller-supplied role.
C16_RoleOnlyWithQuotas ==
    ~create_quotas
        => /\ \A k \in EventIdx : events[k].op # "set_role"
           /\ \A k \in 1..Len(installs) :
                  installs[k].options.service.role = Loaded.service.role

\* ------------------------------------------------------------- C17
Frame(o) == [o EXCEPT !.service.name = "", !.service.role = ""]

Mutations(inst) ==
    {k \in EventIdx :
        events[k].inst = inst /\ events[k].op \in {"set_name", "set_role"}}

\* C17: only service.name and service.role of the options are ever written,
\* once each per iteration; every other field of every submitted install is
\* the caller's, and the executors role is never written into the options.
C17_TwoSlotsOnly ==
    /\ pc \notin {"main", "exit1"} => Frame(options) = Frame(Loaded)
    /\ \A k \in 1..Len(installs) :
           /\ Frame(installs[k].options) = Frame(Loaded)
           /\ installs[k].options.service.role
                  # installs[k].name \o "-executors-role"
           /\ installs[k].options.service.name
                  # installs[k].name \o "-executors-role"
    /\ \A k \in EventIdx :
           /\ Cardinality(Mutations(events[k].inst)) <= 2
           /\ events[k].op = "install"
                  => /\ Cardinality(Mutations(events[k].inst)) = 2
                     /\ \E a, b \in Mutations(events[k].inst) :
                            /\ events[a].op = "set_name"
                            /\ events[b].op = "set_role"
           /\ events[k].op \in {"set_name", "set_role"}
                  => events[k].arg
                         \notin {ExpectedRecord(service_name_base, n)[3] :
                                     n \in 0..num_dispatchers}

\* options loaded from a file, two installs submitted
C17_Witness ==
    /\ options_file # None
    /\ pc = "write"
    /\ i = 1
    /\ Len(installs) >= 2
    /\ installs[Len(installs)].options.service.user = FileOptions.service.user
    /\ installs[Len(installs)].options.hdfs = FileOptions.hdfs

\* ------------------------------------------------------------- C18
\* C18, as stated: standard output is redirected during every control-plane
\* call of create_quota (quota list, quota remove and quota create).
C18_AllQuotaCallsSuppressed ==
    \A k \in EventIdx : events[k].op \in QuotaOps => events[k].out = "null"

\* C18, amended: standard output is redirected during the quota list call
\* only; quota remove and quota create are issued with the process's own
\* standard output in place.
C18_OnlyListSuppressed ==
    \A k \in EventIdx :
        /\ events[k].op = "quota_list" => events[k].out = "null"
        /\ events[k].op \in {"quota_remove", "quota_create"}
               => events[k].out = "orig"

C18_Witness ==
    /\ Len(events) >= 4
    /\ events[Len(events)].op = "quota_create"
    /\ events[Len(events)].out = "orig"
    /\ events[Len(events) - 1].op = "quota_remove"
    /\ events[Len(events) - 1].out = "orig"
    /\ events[Len(events) - 2].op = "quota_list"
    /\ events[Len(events) - 2].out = "null"

\* ------------------------------------------------------------- C19
\* C19: whenever control is outside the no_stdout block, whether the block
\* was left normally or by an error of the quota list call, sys.stdout is the
\* stream it was before the block was entered.
C19_StdoutRestored == stdout = "orig"

\* ------------------------------------------------------------- C20
\* C20: within a run a quota remove is issued only for a quota that existed
\* when the run started, no name is reconciled twice, and every quota the run
\* has created is still there, with its spec, in every later state of the run
\* (in particular when the run aborts at a later instance).
C20_RemovesOnlyOldQuotas ==
    /\ \A k \in EventIdx :
           /\ events[k].op = "quota_remove" => events[k].arg \in Roles(quotas0)
           /\ (events[k].op = "quota_create" /\ events[k].ok)
                  => HoldsExactly(events[k].arg, events[k].spec)
    /\ \A k, m \in EventIdx :
           (k < m /\ events[k].op = events[m].op /\ events[k].op \in {"quota_remove", "quota_create"})
               => events[k].arg # events[m].arg

\* the run aborts at instance 2 after replacing an old quota of instance 1
C20_Witness ==
    /\ pc = "error"
    /\ create_quotas
    /\ run = 1
    /\ events[Len(events)].inst = 2
    /\ Len(CreateEvents) >= 4
    /\ \E k \in EventIdx :
           /\ events[k].op = "quota_remove"
           /\ events[k].inst = 1
    /\ HoldsExactly(ExpectedRecord(service_name_base, 0)[2], DriversSpec)
    /\ HoldsExactly(ExpectedRecord(service_name_base, 1)[3], ExecutorsSpec)

====
